---- MODULE Spec2Model ----
(***************************************************************************)
(* Compound boolean filter node of the query execution engine              *)
(* (internal/core/src/exec/expression/ConjunctExpr.h).                     *)
(*                                                                         *)
(* The header holds the merge primitive ConjunctElementFunc and the class  *)
(* PhyConjunctFilterExpr with its inline members.  The bodies of Eval,     *)
(* UpdateResult, ResolveType, CanSkipFollowingExprs and SkipFollowingExprs *)
(* are only declared there; they are modelled from the specification       *)
(* (sections 4.2 and 8) and marked so where they are defined.              *)
(*                                                                         *)
(* Three specifications share the variables:                               *)
(*   Spec       a scan over a constructed node: Eval step by step,         *)
(*              MoveCursor, Reorder with the complete permutations the     *)
(*              plan optimizer installs;                                   *)
(*   SpecBuild  plan building: the constructor, Reorder with any order     *)
(*              (the code validates nothing), SupportOffsetInput;          *)
(*   SpecMerge  the merge primitive alone, on drawn operands.              *)
(***************************************************************************)
EXTENDS Integers, Sequences, FiniteSets

\* Bounds of the model.
MaxChildren == 3
Width == 2
MaxBatches == 2
MaxLen == 3

VARIABLES
    children,          \* the child expressions handed to the constructor
    node,              \* "unbuilt" | "built" | "type_error"
    inputs_,           \* Expr::inputs_ of the constructed node
    type_,             \* Expr::type_ of the constructed node
    is_and_,           \* PhyConjunctFilterExpr::is_and_
    input_order_,      \* PhyConjunctFilterExpr::input_order_ (0-based indices)
    has_offset_input_, \* Expr::has_offset_input_
    support_ret,       \* <<>> or <<value returned by SupportOffsetInput>>
    bitmap_input,      \* EvalCtx bitmap input (NoBitmap when cleared)
    pc,                \* position of Eval
    i,                 \* Eval's loop index into the evaluation order (1-based)
    result,            \* the accumulator R
    input_result,      \* the bitmap the current child returned
    active_rows,       \* live-row count of the last merge, -1 before any
    skip,              \* "skip remaining" of the running Eval
    error,             \* error leaving Eval, NoError when none
    thrown,            \* error the failing child raised
    B,                 \* the batch: child index -> the bits the child holds
    cursor,            \* child index -> batches the child has consumed
    evals,             \* child index -> Eval calls received in this Eval
    moves,             \* child index -> MoveCursor calls received in this Eval
    calls,             \* batches the driver has pushed through the node
    deviated,          \* some child returned other bits outside its mask
    last_verdict,      \* verdict of the previous Eval on the same batch bits
    last_order,        \* input_order_ of that previous Eval
    merge_in,          \* SpecMerge: the operands before the merge
    tostring_ret,      \* <<>> or <<[order, str]>>: the last ToString call
    prev_skip          \* the skip mark the previous Eval returned with

vars == <<children, node, inputs_, type_, is_and_, input_order_,
          has_offset_input_, support_ret, bitmap_input, pc, i, result,
          input_result, active_rows, skip, error, thrown, B, cursor, evals,
          moves, calls, deviated, last_verdict, last_order, merge_in,
          tostring_ret, prev_skip>>

planVars == <<children, node, inputs_, type_, is_and_, has_offset_input_>>
evalVars == <<bitmap_input, pc, i, result, input_result, active_rows, skip,
              error, thrown, B, cursor, evals, moves, calls, deviated,
              last_verdict, last_order>>

----------------------------------------------------------------------------
(* Values *)

Bit == {0, 1}
Bitmaps == [1..Width -> Bit]
NoBitmap == <<>>
NoError == "none"
Errors == {"StorageError", "DecodeError"}
DataTypes == {"BOOL", "INT64"}

\* TargetBitmap::flip
Flip(bm) == [r \in DOMAIN bm |-> 1 - bm[r]]

\* Child indices of a node with n children (size_t, 0-based).
Indices(n) == 0..(n - 1)

\* Declaration order of n children.
Declared(n) == [k \in 1..n |-> k - 1]

\* Complete permutations of the child indices.
CompleteOrders(n) ==
    {p \in [1..n -> Indices(n)] : \A a, b \in 1..n : p[a] = p[b] => a = b}

\* Every order vector over the child indices, up to n entries.
AnyOrders(n) == UNION {[1..m -> Indices(n)] : m \in 0..n}

----------------------------------------------------------------------------
(* ConjunctElementFunc<is_and>::operator() *)

\* The loop of the merge: rows k..size of res are merged with input, rows
\* left of k are done; activate_rows counts the live rows seen so far.
RECURSIVE ConjunctLoop(_, _, _, _, _)
ConjunctLoop(is_and, input, res, k, activate_rows) ==
    IF k > Len(res)
    THEN [result |-> res, count |-> activate_rows]
    ELSE LET bit == IF is_and
                    THEN (IF res[k] = 1 /\ input[k] = 1 THEN 1 ELSE 0)
                    ELSE (IF res[k] = 1 \/ input[k] = 1 THEN 1 ELSE 0)
             live == IF is_and THEN bit = 1 ELSE bit = 0
         IN  ConjunctLoop(is_and, input, [res EXCEPT ![k] = bit], k + 1,
                          IF live THEN activate_rows + 1 ELSE activate_rows)

\* Mutant: the two branches of the if constexpr exchanged.
ConjunctElementFuncSwapped(is_and, input, res) ==
    LET m == ConjunctLoop(~is_and, input, res, 1, 0)
    IN  [input_result |-> input, result |-> m.result, count |-> m.count]

\* Mutant: the count of set bits is returned in both modes.
ConjunctElementFuncSetCount(is_and, input, res) ==
    LET m == ConjunctLoop(is_and, input, res, 1, 0)
    IN  [input_result |-> input, result |-> m.result,
         count |-> Cardinality({r \in DOMAIN m.result : m.result[r] = 1})]

\* Mutant: the count of unset bits is returned in both modes.
ConjunctElementFuncUnsetCount(is_and, input, res) ==
    LET m == ConjunctLoop(is_and, input, res, 1, 0)
    IN  [input_result |-> input, result |-> m.result,
         count |-> Cardinality({r \in DOMAIN m.result : m.result[r] = 0})]

\* Mutant: the count returned is always zero.
ConjunctElementFuncZeroCount(is_and, input, res) ==
    LET m == ConjunctLoop(is_and, input, res, 1, 0)
    IN  [input_result |-> input, result |-> m.result, count |-> 0]

\* Mutant: the accumulator is assigned the input instead of merged with it.
ConjunctElementFuncAssign(is_and, input, res) ==
    LET m == ConjunctLoop(is_and, input, input, 1, 0)
    IN  [input_result |-> input, result |-> m.result, count |-> m.count]

ConjunctElementFunc(is_and, input, res) ==
    LET m == ConjunctLoop(is_and, input, res, 1, 0)
    IN  [input_result |-> input, result |-> m.result, count |-> m.count]

----------------------------------------------------------------------------
(* PhyConjunctFilterExpr: the constructor and the members defined in the   *)
(* header                                                                  *)

\* ResolveType (declared in the header, body not in it; from the
\* specification): every child's declared result type must be boolean,
\* otherwise the type error is raised.
ResolveType(input_types) ==
    IF \A k \in DOMAIN input_types : input_types[k] = "BOOL"
    THEN [ok |-> TRUE, type |-> "BOOL"]
    ELSE [ok |-> FALSE, type |-> "BOOL"]

\* Mutant: the constructor without the call of ResolveType.
PhyConjunctFilterExprUnchecked(inputs, is_and) ==
    [node |-> "built", inputs_ |-> inputs, type_ |-> "BOOL",
     is_and_ |-> is_and]

\* The constructor: Expr(DataType::BOOL, inputs, ...), is_and_(is_and), the
\* children's types collected in declaration order and handed to ResolveType.
\* An exception leaving ResolveType leaves no object behind.
PhyConjunctFilterExpr(inputs, is_and) ==
    LET input_types == [k \in DOMAIN inputs |-> inputs[k].type]
        resolved == ResolveType(input_types)
    IN  IF resolved.ok
        THEN [node |-> "built", inputs_ |-> inputs, type_ |-> "BOOL",
              is_and_ |-> is_and]
        ELSE [node |-> "type_error", inputs_ |-> <<>>, type_ |-> "none",
              is_and_ |-> is_and]

\* Mutant: the test of has_offset_input_ inverted.
MoveCursorInverted(cur) ==
    IF has_offset_input_
    THEN [c \in DOMAIN cur |-> cur[c] + 1]
    ELSE cur

\* Mutant: the test of has_offset_input_ is missing.
MoveCursorAlways(cur) == [c \in DOMAIN cur |-> cur[c] + 1]

\* Mutant: the loop runs over input_order_ when one is set, not over inputs_.
MoveCursorByOrder(cur) ==
    IF ~has_offset_input_
    THEN [c \in DOMAIN cur |->
            IF input_order_ = <<>>
               \/ \E k \in DOMAIN input_order_ : input_order_[k] = c
            THEN cur[c] + 1 ELSE cur[c]]
    ELSE cur

\* MoveCursor: without offset input every child's cursor is advanced, with
\* offset input nothing is.  cur maps each child index to its position.
MoveCursor(cur) ==
    IF ~has_offset_input_
    THEN [c \in DOMAIN cur |-> cur[c] + 1]
    ELSE cur

\* SupportOffsetInput: the loop over inputs_ from child k on, returning false
\* at the first child that does not support offset input.
RECURSIVE SupportOffsetInputFrom(_)
SupportOffsetInputFrom(k) ==
    IF k > Len(inputs_) THEN TRUE
    ELSE IF ~inputs_[k].offset THEN FALSE
    ELSE SupportOffsetInputFrom(k + 1)

\* Mutant: true as soon as one child supports offset input.
SupportOffsetInputAny == \E k \in DOMAIN inputs_ : inputs_[k].offset

SupportOffsetInput == SupportOffsetInputFrom(1)

\* Mutant: the last entry of the order is lost in the copy.
ReorderTruncated(exprs_order) ==
    SubSeq(exprs_order, 1, Len(exprs_order) - 1)

\* Mutant: the first entry of the order is lost in the copy.
ReorderWithoutFirst(exprs_order) ==
    IF exprs_order = <<>> THEN <<>> ELSE Tail(exprs_order)

\* Reorder: the order is stored as given.
Reorder(exprs_order) == exprs_order

\* GetReorder
GetReorder == input_order_

\* Mutant: the flip of the disjunction is missing.
SetNextExprBitmapInputNoFlip(vec) == vec

\* Mutant: the flip is made for the conjunction instead.
SetNextExprBitmapInputFlipAnd(vec) ==
    IF is_and_ THEN Flip(vec) ELSE vec

\* SetNextExprBitmapInput: a copy of the accumulator, flipped for a
\* disjunction, becomes the context's bitmap input.
SetNextExprBitmapInput(vec) ==
    LET next_input_bitmap == vec
    IN  IF is_and_ THEN next_input_bitmap ELSE Flip(next_input_bitmap)

\* Mutant: clear_bitmap_input() is not called.
ClearBitmapInputKept == bitmap_input

\* Mutant: the clear is reached on a child's return only, not when the
\* child's failure unwinds Eval.
ClearBitmapInputOnReturnOnly ==
    IF pc = "unwind" THEN bitmap_input ELSE NoBitmap

\* ClearBitmapInput: the context's bitmap input after clear_bitmap_input().
ClearBitmapInput == NoBitmap

IsAnd == is_and_
IsOr == ~is_and_
IsSource == FALSE

\* Strings are modelled as sequences of characters.
\* The text of fmt::format("[ConjuctExpr:{}]", input_str) around input_str.
FormatOpen == <<"[", "C", "o", "n", "j", "u", "c", "t", "E", "x", "p", "r", ":">>
FormatClose == <<"]">>

\* The delimiters ToString hands to Join.
DelimAndSpaced == <<" ", "&", "&", " ">>
DelimOrSpaced == <<" ", "|", "|", " ">>
DelimOrBare == <<"|", "|">>

\* ToString of child c (0-based): a leaf's description, one letter a child.
ChildNames == <<"a", "b", "c", "d", "e", "f">>
ChildToString(c) == <<ChildNames[c + 1]>>

\* Join(items, delimiter): the items in sequence, the delimiter between two
\* successive ones.
RECURSIVE Join(_, _)
Join(items, delimiter) ==
    IF Len(items) = 0 THEN <<>>
    ELSE IF Len(items) = 1 THEN items[1]
    ELSE items[1] \o delimiter \o Join(Tail(items), delimiter)

\* ToString with input_order_ = order: the first branch renders the children
\* named by a non-empty order, the second one all children as declared.
ToStringOf(order) ==
    IF order # <<>>
    THEN LET inputs == [k \in 1..Len(order) |-> ChildToString(order[k])]
             input_str == IF is_and_ THEN Join(inputs, DelimAndSpaced)
                                     ELSE Join(inputs, DelimOrSpaced)
         IN  FormatOpen \o input_str \o FormatClose
    ELSE LET inputs == [k \in 1..Len(inputs_) |-> ChildToString(k - 1)]
             input_str == IF is_and_ THEN Join(inputs, DelimAndSpaced)
                                     ELSE Join(inputs, DelimOrBare)
         IN  FormatOpen \o input_str \o FormatClose

\* Mutant: the children are always rendered as declared.
ToStringDeclared == ToStringOf(<<>>)

\* ToString
ToString == ToStringOf(input_order_)

----------------------------------------------------------------------------
(* PhyConjunctFilterExpr: members declared in the header, modelled from    *)
(* the specification                                                       *)

\* The order Eval iterates in: the override if one is set, else declaration
\* order (the test ToString makes on input_order_).
EffectiveOrder ==
    IF input_order_ # <<>> THEN input_order_ ELSE Declared(Len(inputs_))

\* UpdateResult: the merge primitive of the node's mode.
UpdateResult(input, res) ==
    IF is_and_
    THEN ConjunctElementFunc(TRUE, input, res)
    ELSE ConjunctElementFunc(FALSE, input, res)

\* CanSkipFollowingExprs: the accumulator already decides every row.
CanSkipFollowingExprs(vec) ==
    \/ is_and_ /\ \A r \in DOMAIN vec : vec[r] = 0
    \/ ~is_and_ /\ \A r \in DOMAIN vec : vec[r] = 1

\* The children SkipFollowingExprs(start) reaches: those at positions
\* start.. of the evaluation order.
Following(start) ==
    {EffectiveOrder[k] : k \in start..Len(EffectiveOrder)}

\* SkipFollowingExprs(start): cursor-advance of every following child,
\* unless offset input is active.  f maps each child index to a count.
SkipFollowingExprs(start, f) ==
    IF has_offset_input_
    THEN f
    ELSE [c \in DOMAIN f |-> IF c \in Following(start) THEN f[c] + 1 ELSE f[c]]

\* A child's Eval on the current batch: the bits it holds, on the rows of
\* the mask at least; it may return anything on rows the mask excludes.
ChildOutputs(c) ==
    IF bitmap_input = NoBitmap
    THEN {B[c]}
    ELSE {out \in Bitmaps :
            \A r \in 1..Width : bitmap_input[r] = 1 => out[r] = B[c][r]}

\* A streaming child consumes one batch when evaluated.
Consume(cur, c) ==
    IF has_offset_input_ THEN cur ELSE [cur EXCEPT ![c] = cur[c] + 1]

----------------------------------------------------------------------------
(* Initial states *)

Zeros(n) == [c \in Indices(n) |-> 0]

\* No Eval has run: a fresh context, no batch consumed.
EvalInit(n) ==
    /\ bitmap_input = NoBitmap
    /\ pc = "idle"
    /\ i = 0
    /\ result = NoBitmap
    /\ input_result = NoBitmap
    /\ active_rows = -1
    /\ skip = FALSE
    /\ error = NoError
    /\ thrown = NoError
    /\ B = [c \in Indices(n) |-> [r \in 1..Width |-> 0]]
    /\ cursor = Zeros(n)
    /\ evals = Zeros(n)
    /\ moves = Zeros(n)
    /\ calls = 0
    /\ deviated = FALSE
    /\ last_verdict = NoBitmap
    /\ last_order = <<>>

\* A node constructed over 1..MaxChildren boolean children, in either mode,
\* scanned by cursor or by offsets.
Init ==
    /\ \E n \in 1..MaxChildren, and \in BOOLEAN, off \in BOOLEAN :
          LET kids == [k \in 1..n |-> [type |-> "BOOL", offset |-> off]]
              made == PhyConjunctFilterExpr(kids, and)
          IN  /\ children = kids
              /\ node = made.node
              /\ inputs_ = made.inputs_
              /\ type_ = made.type_
              /\ is_and_ = made.is_and_
              /\ has_offset_input_ = off
              /\ EvalInit(n)
    /\ input_order_ = <<>>
    /\ support_ret = <<>>
    /\ merge_in = <<>>
    /\ tostring_ret = <<>>
    /\ prev_skip = FALSE

----------------------------------------------------------------------------
(* Operations of a scan *)

\* The plan optimizer installs an evaluation order between two batches.
CallReorder(orders) ==
    /\ node = "built"
    /\ pc = "idle"
    /\ \E exprs_order \in orders : input_order_' = Reorder(exprs_order)
    /\ UNCHANGED <<planVars, support_ret, evalVars, merge_in,
                   tostring_ret, prev_skip>>

\* The driver (or a parent that skipped this node) advances the node by one
\* batch without evaluating it.
CallMoveCursor ==
    /\ node = "built"
    /\ pc = "idle"
    /\ calls < MaxBatches
    /\ cursor' = MoveCursor(cursor)
    /\ calls' = calls + 1
    /\ UNCHANGED <<planVars, input_order_, support_ret, bitmap_input, pc, i,
                   result, input_result, active_rows, skip, error, thrown, B,
                   evals, moves, deviated, last_verdict, last_order,
                   merge_in, tostring_ret, prev_skip>>

\* Eval is entered for the next batch, whose rows hold the bits b; the
\* context is fresh.
EvalBegin ==
    /\ node = "built"
    /\ pc = "idle"
    /\ calls < MaxBatches
    /\ \E b \in [Indices(Len(inputs_)) -> Bitmaps] :
          /\ B' = b
          /\ last_verdict' = IF b = B THEN last_verdict ELSE NoBitmap
          /\ last_order' = IF b = B THEN last_order ELSE <<>>
    /\ pc' = "first"
    /\ i' = 1
    /\ bitmap_input' = NoBitmap
    /\ result' = NoBitmap
    /\ input_result' = NoBitmap
    /\ active_rows' = -1
    /\ skip' = FALSE
    /\ evals' = Zeros(Len(inputs_))
    /\ moves' = Zeros(Len(inputs_))
    /\ deviated' = FALSE
    /\ UNCHANGED <<planVars, input_order_, support_ret, error, thrown, cursor,
                   calls, merge_in, tostring_ret, prev_skip>>

\* Step 2: the first child of the order is evaluated into the accumulator;
\* an accumulator that already decides every row marks the skip.
EvalFirst ==
    /\ pc = "first"
    /\ LET c == EffectiveOrder[1]
       IN  /\ evals' = [evals EXCEPT ![c] = @ + 1]
           /\ \/ /\ \E out \in ChildOutputs(c) : result' = out
                 /\ skip' = CanSkipFollowingExprs(result')
                 /\ cursor' = Consume(cursor, c)
                 /\ i' = 2
                 /\ pc' = "loop"
                 /\ UNCHANGED thrown
              \/ /\ \E e \in Errors : thrown' = e
                 /\ pc' = "unwind"
                 /\ UNCHANGED <<result, skip, cursor, i>>
    /\ UNCHANGED <<planVars, input_order_, support_ret, bitmap_input,
                   input_result, active_rows, error, B, moves, calls,
                   deviated, last_verdict, last_order,
                   merge_in, tostring_ret, prev_skip>>

\* Step 3a: the skip is marked; the following children are cursor-advanced
\* instead of evaluated.
EvalSkip ==
    /\ pc = "loop"
    /\ i <= Len(EffectiveOrder)
    /\ skip
    /\ cursor' = SkipFollowingExprs(i, cursor)
    /\ moves' = SkipFollowingExprs(i, moves)
    /\ i' = Len(EffectiveOrder) + 1
    /\ UNCHANGED <<planVars, input_order_, support_ret, bitmap_input, pc,
                   result, input_result, active_rows, skip, error, thrown, B,
                   evals, calls, deviated, last_verdict, last_order,
                   merge_in, tostring_ret, prev_skip>>

\* Step 3b, first half: the mask derived from the accumulator is installed.
EvalInstall ==
    /\ pc = "loop"
    /\ i <= Len(EffectiveOrder)
    /\ ~skip
    /\ bitmap_input' = SetNextExprBitmapInput(result)
    /\ pc' = "child"
    /\ UNCHANGED <<planVars, input_order_, support_ret, i, result,
                   input_result, active_rows, skip, error, thrown, B, cursor,
                   evals, moves, calls, deviated, last_verdict, last_order,
                   merge_in, tostring_ret, prev_skip>>

\* Step 3b, second half: the child is evaluated under the mask and the mask
\* is cleared; or the child fails.
EvalChild ==
    /\ pc = "child"
    /\ LET c == EffectiveOrder[i]
       IN  /\ evals' = [evals EXCEPT ![c] = @ + 1]
           /\ \/ /\ \E out \in ChildOutputs(c) : input_result' = out
                 /\ deviated' = (deviated \/ input_result' # B[c])
                 /\ cursor' = Consume(cursor, c)
                 /\ bitmap_input' = ClearBitmapInput
                 /\ pc' = "merge"
                 /\ UNCHANGED thrown
              \/ /\ \E e \in Errors : thrown' = e
                 /\ pc' = "unwind"
                 /\ UNCHANGED <<input_result, deviated, cursor, bitmap_input>>
    /\ UNCHANGED <<planVars, input_order_, support_ret, i, result,
                   active_rows, skip, error, B, moves, calls, last_verdict,
                   last_order,
                   merge_in, tostring_ret, prev_skip>>

\* Steps 3c and 3d: the child's bitmap is merged into the accumulator; a
\* live-row count of zero marks the skip.
EvalMerge ==
    /\ pc = "merge"
    /\ LET merged == UpdateResult(input_result, result)
       IN  /\ result' = merged.result
           /\ input_result' = merged.input_result
           /\ active_rows' = merged.count
           /\ skip' = (merged.count = 0)
    /\ i' = i + 1
    /\ pc' = "loop"
    /\ UNCHANGED <<planVars, input_order_, support_ret, bitmap_input, error,
                   thrown, B, cursor, evals, moves, calls, deviated,
                   last_verdict, last_order,
                   merge_in, tostring_ret, prev_skip>>

\* Step 4: the accumulator is returned.
EvalReturn ==
    /\ pc = "loop"
    /\ i > Len(EffectiveOrder)
    /\ pc' = "done"
    /\ UNCHANGED <<planVars, input_order_, support_ret, bitmap_input, i,
                   result, input_result, active_rows, skip, error, thrown, B,
                   cursor, evals, moves, calls, deviated, last_verdict,
                   last_order,
                   merge_in, tostring_ret, prev_skip>>

\* A child's failure leaves Eval: the mask installed for the child is
\* released, the error is passed on as raised.
EvalUnwind ==
    /\ pc = "unwind"
    /\ bitmap_input' = IF i > 1 THEN ClearBitmapInput ELSE bitmap_input
    /\ error' = thrown
    /\ pc' = "failed"
    /\ UNCHANGED <<planVars, input_order_, support_ret, i, result,
                   input_result, active_rows, skip, thrown, B, cursor, evals,
                   moves, calls, deviated, last_verdict, last_order,
                   merge_in, tostring_ret, prev_skip>>

\* The caller consumes the verdict of the batch.
EvalConsumed ==
    /\ pc = "done"
    /\ pc' = "idle"
    /\ calls' = calls + 1
    /\ last_verdict' = result
    /\ last_order' = input_order_
    /\ prev_skip' = skip
    /\ UNCHANGED <<planVars, input_order_, support_ret, bitmap_input, i,
                   result, input_result, active_rows, skip, error, thrown, B,
                   cursor, evals, moves, deviated,
                   merge_in, tostring_ret>>

ScanOrders == CompleteOrders(Len(inputs_)) \cup {<<>>}

Next ==
    \/ CallReorder(ScanOrders)
    \/ CallMoveCursor
    \/ EvalBegin
    \/ EvalFirst
    \/ EvalSkip
    \/ EvalInstall
    \/ EvalChild
    \/ EvalMerge
    \/ EvalReturn
    \/ EvalUnwind
    \/ EvalConsumed

Spec == Init /\ [][Next]_vars

----------------------------------------------------------------------------
(* Plan building *)

\* The plan builder holds 1..MaxChildren child expressions of any declared
\* type, each supporting offset input or not; no node is built yet.
InitBuild ==
    /\ \E n \in 1..MaxChildren :
          /\ children \in [1..n -> [type : DataTypes, offset : BOOLEAN]]
          /\ EvalInit(n)
    /\ node = "unbuilt"
    /\ inputs_ = <<>>
    /\ type_ = "none"
    /\ is_and_ = FALSE
    /\ has_offset_input_ = FALSE
    /\ input_order_ = <<>>
    /\ support_ret = <<>>
    /\ merge_in = <<>>
    /\ tostring_ret = <<>>
    /\ prev_skip = FALSE

\* The constructor runs on the children, in either mode.
Construct ==
    /\ node = "unbuilt"
    /\ \E is_and \in BOOLEAN :
          LET made == PhyConjunctFilterExpr(children, is_and)
          IN  /\ node' = made.node
              /\ inputs_' = made.inputs_
              /\ type_' = made.type_
              /\ is_and_' = made.is_and_
    /\ UNCHANGED <<children, has_offset_input_, input_order_, support_ret,
                   evalVars, merge_in,
                   tostring_ret, prev_skip>>

\* SupportOffsetInput is called on the node.
CallSupportOffsetInput ==
    /\ node = "built"
    /\ support_ret' = <<SupportOffsetInput>>
    /\ UNCHANGED <<planVars, input_order_, evalVars, merge_in,
                   tostring_ret, prev_skip>>

\* ToString is called on the node.
CallToString ==
    /\ node = "built"
    /\ tostring_ret' = <<[order |-> input_order_, str |-> ToString]>>
    /\ UNCHANGED <<planVars, input_order_, support_ret, evalVars, merge_in,
                   prev_skip>>

BuildOrders == AnyOrders(Len(inputs_))

NextBuild ==
    \/ Construct
    \/ CallReorder(BuildOrders)
    \/ CallSupportOffsetInput
    \/ CallToString
    \/ CallMoveCursor

SpecBuild == InitBuild /\ [][NextBuild]_vars

----------------------------------------------------------------------------
(* The merge primitive alone *)

\* An accumulator and an input of equal length 0..MaxLen, and a mode.
InitMerge ==
    /\ \E len \in 0..MaxLen :
          /\ result \in [1..len -> Bit]
          /\ input_result \in [1..len -> Bit]
    /\ is_and_ \in BOOLEAN
    /\ merge_in = <<>>
    /\ tostring_ret = <<>>
    /\ prev_skip = FALSE
    /\ active_rows = -1
    /\ children = <<>>
    /\ node = "unbuilt"
    /\ inputs_ = <<>>
    /\ type_ = "none"
    /\ has_offset_input_ = FALSE
    /\ input_order_ = <<>>
    /\ support_ret = <<>>
    /\ bitmap_input = NoBitmap
    /\ pc = "idle"
    /\ i = 0
    /\ skip = FALSE
    /\ error = NoError
    /\ thrown = NoError
    /\ B = <<>>
    /\ cursor = <<>>
    /\ evals = <<>>
    /\ moves = <<>>
    /\ calls = 0
    /\ deviated = FALSE
    /\ last_verdict = NoBitmap
    /\ last_order = <<>>

\* ConjunctElementFunc<is_and_> is applied to the operands.
MergeApply ==
    /\ merge_in = <<>>
    /\ LET merged == ConjunctElementFunc(is_and_, input_result, result)
       IN  /\ result' = merged.result
           /\ input_result' = merged.input_result
           /\ active_rows' = merged.count
    /\ merge_in' = <<[input |-> input_result, result |-> result]>>
    /\ UNCHANGED <<planVars, input_order_, support_ret, bitmap_input, pc, i,
                   skip, error, thrown, B, cursor, evals, moves, calls,
                   deviated, last_verdict, last_order, tostring_ret, prev_skip>>

NextMerge == MergeApply

SpecMerge == InitMerge /\ [][NextMerge]_vars

\* What the merge reads as its input over the n bits of the accumulator: the
\* input itself when it has n bits or more; when it has fewer, the bits past
\* its end are whatever the memory behind the view holds.
ReadPast(input, n) ==
    IF Len(input) >= n
    THEN {input}
    ELSE {seen \in [1..n -> Bit] : \A k \in 1..Len(input) : seen[k] = input[k]}

\* An accumulator and an input of any two lengths 0..MaxLen, and a mode.
InitMergeAny ==
    /\ \E len \in 0..MaxLen : result \in [1..len -> Bit]
    /\ \E len \in 0..MaxLen : input_result \in [1..len -> Bit]
    /\ is_and_ \in BOOLEAN
    /\ merge_in = <<>>
    /\ tostring_ret = <<>>
    /\ prev_skip = FALSE
    /\ active_rows = -1
    /\ children = <<>>
    /\ node = "unbuilt"
    /\ inputs_ = <<>>
    /\ type_ = "none"
    /\ has_offset_input_ = FALSE
    /\ input_order_ = <<>>
    /\ support_ret = <<>>
    /\ bitmap_input = NoBitmap
    /\ pc = "idle"
    /\ i = 0
    /\ skip = FALSE
    /\ error = NoError
    /\ thrown = NoError
    /\ B = <<>>
    /\ cursor = <<>>
    /\ evals = <<>>
    /\ moves = <<>>
    /\ calls = 0
    /\ deviated = FALSE
    /\ last_verdict = NoBitmap
    /\ last_order = <<>>

\* ConjunctElementFunc<is_and_> is applied to operands of any lengths.  The
\* functor compares no lengths: it merges res_data.size() bits.  With an
\* input shorter than the accumulator the bitset operation is asked for more
\* bits than the input view holds; it then either reads past the view or
\* fails its range check.
MergeApplyAny ==
    /\ merge_in = <<>>
    /\ \/ /\ \E seen \in ReadPast(input_result, Len(result)) :
                LET merged == ConjunctElementFunc(is_and_, seen, result)
                IN  /\ result' = merged.result
                    /\ active_rows' = merged.count
          /\ UNCHANGED error
       \/ /\ Len(input_result) < Len(result)
          /\ error' = "AssertionError"
          /\ UNCHANGED <<result, active_rows>>
    /\ merge_in' = <<[input |-> input_result, result |-> result]>>
    /\ UNCHANGED <<planVars, input_order_, support_ret, bitmap_input, pc, i,
                   input_result, skip, thrown, B, cursor, evals, moves,
                   calls, deviated, last_verdict, last_order, tostring_ret,
                   prev_skip>>

NextMergeAny == MergeApplyAny

SpecMergeAny == InitMergeAny /\ [][NextMergeAny]_vars

----------------------------------------------------------------------------
(* Properties *)

N == Len(inputs_)

\* The verdict of row r over all children: conjunction or disjunction of
\* the bits the children hold.
Verdict(r) ==
    IF is_and_
    THEN (IF \A c \in Indices(N) : B[c][r] = 1 THEN 1 ELSE 0)
    ELSE (IF \E c \in Indices(N) : B[c][r] = 1 THEN 1 ELSE 0)

\* The bitmap that decides every row: all-false for AND, all-true for OR.
Decided == [r \in 1..Width |-> IF is_and_ THEN 0 ELSE 1]

\* The verdict of row r over the children at positions 1..k of the
\* evaluation order, from the bits they hold.
PrefixVerdict(k, r) ==
    IF is_and_
    THEN (IF \A j \in 1..k : B[EffectiveOrder[j]][r] = 1 THEN 1 ELSE 0)
    ELSE (IF \E j \in 1..k : B[EffectiveOrder[j]][r] = 1 THEN 1 ELSE 0)

\* The rows still undecided after positions 1..k.
PrefixLive(k) ==
    Cardinality({r \in 1..Width :
                   PrefixVerdict(k, r) = (IF is_and_ THEN 1 ELSE 0)})

\* C1: with children that return the bits they hold whatever the mask, the
\* bitmap Eval returns is, row by row, the AND of all children's bitmaps in
\* AND mode and their OR in OR mode, also when short-circuit left children
\* unevaluated.
C1_EvalReturnsAndOrOfAll ==
    (pc = "done" /\ ~deviated) =>
        /\ DOMAIN result = 1..Width
        /\ \A r \in 1..Width : result[r] = Verdict(r)

\* C1 witness: an Eval over three children returned after a merge reached
\* zero live rows and left a child unevaluated.
C1_Witness ==
    /\ pc = "done"
    /\ ~deviated
    /\ N = 3
    /\ active_rows = 0
    /\ \E c \in Indices(N) : evals[c] = 0

\* C2: an Eval over the same children bitmaps as the previous Eval returns
\* the same bitmap, whatever complete order (or none) either ran under.
C2_VerdictIndependentOfOrder ==
    (pc = "done" /\ last_verdict # NoBitmap) => result = last_verdict

\* C2 witness: two Evals over the same bitmaps under two different installed
\* orders, the second one skipping a child.
C2_Witness ==
    /\ pc = "done"
    /\ last_verdict # NoBitmap
    /\ last_order # <<>>
    /\ input_order_ # <<>>
    /\ last_order # input_order_
    /\ \E c \in Indices(N) : evals[c] = 0

\* C3: from the merge that yields a live-row count of zero to the end of
\* that Eval no child is evaluated, and the bitmap returned is all-false in
\* AND mode and all-true in OR mode.
C3_NoEvalAfterZeroLive ==
    [][(active_rows = 0 /\ pc # "idle") =>
          /\ evals' = evals
          /\ (pc' = "done" => result' = Decided)]_vars

\* C3 witness: an Eval returned after a merge with zero live rows, with a
\* later child cursor-advanced instead of evaluated.
C3_Witness ==
    /\ pc = "done"
    /\ active_rows = 0
    /\ \E c \in Indices(N) : evals[c] = 0 /\ moves[c] = 1

\* C4: in streaming mode every child is, in one Eval, either evaluated once
\* or cursor-advanced once, never both and never neither; between batches
\* every child has consumed exactly the batches pushed through the node.
C4_EveryChildHandledOnce ==
    (node = "built" /\ ~has_offset_input_) =>
        /\ pc = "done" =>
              \A c \in Indices(N) :
                  /\ evals[c] + moves[c] = 1
                  /\ cursor[c] = calls + 1
        /\ pc = "idle" => \A c \in Indices(N) : cursor[c] = calls

\* C4 witness: the second streaming batch returned with one child evaluated
\* and another cursor-advanced.
C4_Witness ==
    /\ ~has_offset_input_
    /\ pc = "done"
    /\ calls = 1
    /\ \E c \in Indices(N) : evals[c] = 1 /\ moves[c] = 0
    /\ \E c \in Indices(N) : evals[c] = 0 /\ moves[c] = 1

\* C5: whatever the children return on the rows their mask excludes, the
\* bitmap returned and the set of children evaluated are those the bits
\* inside the masks determine: the verdict over the bits the children hold,
\* and the children up to the first position that leaves no row undecided.
C5_OutOfMaskBitsIrrelevant ==
    pc = "done" =>
        /\ \A r \in 1..Width : result[r] = PrefixVerdict(Len(EffectiveOrder), r)
        /\ \A k \in 1..Len(EffectiveOrder) :
              evals[EffectiveOrder[k]] =
                  (IF k = 1 \/ PrefixLive(k - 1) # 0 THEN 1 ELSE 0)

\* C5 witness: an Eval returned in which a child gave bits other than the
\* ones it holds on rows outside its mask, and a later child was skipped.
C5_Witness ==
    /\ pc = "done"
    /\ deviated
    /\ \E c \in Indices(N) : evals[c] = 0

\* C6: when Eval has returned, the context carries no bitmap input.
C6_NoMaskAfterReturn ==
    pc \in {"done", "idle"} => bitmap_input = NoBitmap

\* C6 witness: Eval returned on the short-circuit path after a mask had been
\* installed for a child.
C6_Witness ==
    /\ pc = "done"
    /\ active_rows = 0
    /\ bitmap_input = NoBitmap
    /\ \E c \in Indices(N) : moves[c] = 1

\* C7: construction succeeds exactly when every child's declared type is
\* boolean, and the node then has result type boolean and holds the
\* children; otherwise the type error is raised and no node exists.
C7_ConstructIffAllBoolean ==
    node # "unbuilt" =>
        /\ node = "built" <=>
              \A k \in DOMAIN children : children[k].type = "BOOL"
        /\ node = "built" => (type_ = "BOOL" /\ inputs_ = children)
        /\ node # "built" =>
              (node = "type_error" /\ inputs_ = <<>> /\ type_ = "none")

\* C7 witness: construction over three children, one of them not boolean,
\* has failed.
C7_Witness ==
    /\ node = "type_error"
    /\ Len(children) = 3
    /\ Cardinality({k \in DOMAIN children : children[k].type # "BOOL"}) = 1

\* C8: SupportOffsetInput returns true exactly when every child supports
\* offset input, and the call changes nothing of the node or the scan.
C8_SupportOffsetInputIsConjunction ==
    [][CallSupportOffsetInput =>
          /\ support_ret' = <<\A k \in DOMAIN inputs_ : inputs_[k].offset>>
          /\ UNCHANGED <<planVars, input_order_, evalVars, merge_in,
                   tostring_ret, prev_skip>>]_vars

\* C8 witness: a disjunction with an order installed answered false although
\* one of its three children supports offset input.
C8_Witness ==
    /\ node = "built"
    /\ support_ret = <<FALSE>>
    /\ ~is_and_
    /\ input_order_ # <<>>
    /\ N = 3
    /\ \E k \in DOMAIN inputs_ : inputs_[k].offset

C10_MergeAndCount ==
    merge_in # <<>> =>
        LET R0 == merge_in[1].result
            I0 == merge_in[1].input
        IN  /\ DOMAIN result = DOMAIN R0
            /\ \A r \in DOMAIN R0 :
                  result[r] =
                      IF is_and_
                      THEN (IF R0[r] = 1 /\ I0[r] = 1 THEN 1 ELSE 0)
                      ELSE (IF R0[r] = 1 \/ I0[r] = 1 THEN 1 ELSE 0)
            /\ active_rows =
                  Cardinality({r \in DOMAIN result :
                                 result[r] = (IF is_and_ THEN 1 ELSE 0)})
            /\ input_result = I0

\* C10 witness: an OR merge over three rows changed the accumulator and left
\* one row unset.
C10_Witness ==
    /\ merge_in # <<>>
    /\ ~is_and_
    /\ Len(result) = 3
    /\ result # merge_in[1].result
    /\ active_rows = 1

\* A string without its blanks.
RECURSIVE NoBlanks(_)
NoBlanks(str) ==
    IF str = <<>> THEN <<>>
    ELSE IF Head(str) = " " THEN NoBlanks(Tail(str))
    ELSE <<Head(str)>> \o NoBlanks(Tail(str))

\* The order a ToString call renders: the installed one, else declaration
\* order.
Rendered(call) ==
    IF call.order # <<>> THEN call.order ELSE Declared(N)

\* C11: ToString renders, inside "[ConjuctExpr:" and "]", the children's
\* descriptions in the installed order when one is set and in declaration
\* order otherwise, with && between two successive ones in AND mode and ||
\* in OR mode (blanks around the operator aside).
C11_ToStringInfix ==
    tostring_ret # <<>> =>
        LET call == tostring_ret[1]
            ord == Rendered(call)
            text == NoBlanks(call.str)
            open == Len(FormatOpen)
        IN  /\ Len(text) = open + 3 * Len(ord) - (IF ord = <<>> THEN 0 ELSE 2) + 1
            /\ SubSeq(text, 1, open) = FormatOpen
            /\ text[Len(text)] = "]"
            /\ \A k \in 1..Len(ord) :
                  /\ text[open + 3 * (k - 1) + 1] = ChildNames[ord[k] + 1]
                  /\ k < Len(ord) =>
                        /\ text[open + 3 * (k - 1) + 2] =
                              (IF is_and_ THEN "&" ELSE "|")
                        /\ text[open + 3 * (k - 1) + 3] =
                              (IF is_and_ THEN "&" ELSE "|")

\* C11 witness: ToString was called on a disjunction of three children with
\* an order installed that is not the declaration order.
C11_Witness ==
    /\ tostring_ret # <<>>
    /\ ~is_and_
    /\ N = 3
    /\ Len(tostring_ret[1].order) = 3
    /\ tostring_ret[1].order # Declared(3)

\* The first child of the evaluation order decides every row by itself.
FirstDecides == B[EffectiveOrder[1]] = Decided

\* The children other than the first of the evaluation order.
Others == Indices(N) \ {EffectiveOrder[1]}

\* C12 as stated: when the first child of the order decides every row, Eval
\* returns that child's bitmap without a merge, no other child is evaluated
\* and every other child is cursor-advanced once.
C12_FirstDecidesOthersAdvanced ==
    (pc = "done" /\ FirstDecides) =>
        /\ active_rows = -1
        /\ evals[EffectiveOrder[1]] = 1
        /\ result = B[EffectiveOrder[1]]
        /\ \A c \in Others : evals[c] = 0 /\ moves[c] = 1

\* C12 amended: when the first child of the order decides every row, Eval
\* returns that child's bitmap without a merge and no other child is
\* evaluated; every other child is cursor-advanced once when the node
\* streams, and left alone under offset input.
C12_FirstDecidesSkipsOthers ==
    (pc = "done" /\ FirstDecides) =>
        /\ active_rows = -1
        /\ evals[EffectiveOrder[1]] = 1
        /\ result = B[EffectiveOrder[1]]
        /\ \A c \in Others :
              /\ evals[c] = 0
              /\ moves[c] = (IF has_offset_input_ THEN 0 ELSE 1)

\* C12 witness: a streaming Eval over three children under an installed
\* order returned the deciding bitmap of its first child, the other two
\* children cursor-advanced only.
C12_Witness ==
    /\ pc = "done"
    /\ FirstDecides
    /\ ~has_offset_input_
    /\ N = 3
    /\ input_order_ # <<>>
    /\ EffectiveOrder[1] # 0
    /\ result = Decided
    /\ \A c \in Others : evals[c] = 0 /\ moves[c] = 1

\* The children Eval has evaluated so far in the running call.
Evaluated == {c \in Indices(N) : evals[c] >= 1}

\* C13: the children are evaluated one after the other in the effective
\* order (the installed order, else declaration order), none twice; and when
\* the live-row count is nonzero after every child of the order (counted
\* from the first child on), Eval returns with every child evaluated exactly
\* once and none cursor-advanced.
C13_EffectiveOrderAndNoSkip ==
    /\ pc \in {"loop", "child", "merge", "done"} =>
          /\ \A c \in Indices(N) : evals[c] <= 1
          /\ \E m \in 1..N : Evaluated = {EffectiveOrder[k] : k \in 1..m}
    /\ pc = "child" =>
          /\ Evaluated = {EffectiveOrder[k] : k \in 1..(i - 1)}
          /\ EffectiveOrder[i] \notin Evaluated
    /\ (pc = "done" /\ \A k \in 1..N : PrefixLive(k) # 0) =>
          \A c \in Indices(N) : evals[c] = 1 /\ moves[c] = 0

\* C13 witness: a streaming Eval over three children under an installed
\* order other than declaration order returned after two merges that each
\* left a live row.
C13_Witness ==
    /\ pc = "done"
    /\ ~has_offset_input_
    /\ N = 3
    /\ input_order_ # <<>>
    /\ input_order_ # Declared(3)
    /\ \A k \in 1..N : PrefixLive(k) # 0
    /\ active_rows > 0
    /\ \A c \in Indices(N) : evals[c] = 1 /\ moves[c] = 0

\* C14: the skip mark of one Eval is not seen by the next: after an Eval that
\* returned with the skip marked, the next Eval starts with no mark, evaluates
\* its first child, and evaluates each later child exactly when every earlier
\* position of that call left a live row.
C14_SkipStateNotKept ==
    /\ [](prev_skip =>
            /\ pc = "first" => (~skip /\ Evaluated = {})
            /\ pc = "done" =>
                  /\ evals[EffectiveOrder[1]] = 1
                  /\ \A k \in 2..N :
                        evals[EffectiveOrder[k]] =
                            (IF \A j \in 1..(k - 1) : PrefixLive(j) # 0
                             THEN 1 ELSE 0))
    /\ [][(pc = "idle" /\ skip /\ pc' = "first") => ~skip']_vars

\* C14 witness: the Eval before returned with the skip marked; this one, on
\* the same node of three children, evaluated every child and returned with
\* a live row.
C14_Witness ==
    /\ pc = "done"
    /\ prev_skip
    /\ N = 3
    /\ ~skip
    /\ active_rows > 0
    /\ \A c \in Indices(N) : evals[c] = 1

\* C15: the mask installed for a child after the first is the accumulator as
\* it stands before that child is merged, in AND mode, and its complement in
\* OR mode; the child is evaluated under that mask, and installing it leaves
\* the accumulator unchanged.
C15_MaskFromAccumulator ==
    /\ [](pc = "child" =>
            /\ i >= 2
            /\ bitmap_input = (IF is_and_ THEN result ELSE Flip(result))
            /\ \A r \in 1..Width : result[r] = PrefixVerdict(i - 1, r))
    /\ [][(pc = "loop" /\ pc' = "child") => result' = result]_vars
    /\ [][(pc = "child" /\ pc' = "merge") =>
            /\ result' = result
            /\ \A r \in 1..Width :
                  bitmap_input[r] = 1 =>
                      input_result'[r] = B[EffectiveOrder[i]][r]]_vars

\* C15 witness: in OR mode the third child of three is about to be evaluated
\* under a mask that is the complement of an accumulator holding both a set
\* and an unset row.
C15_Witness ==
    /\ pc = "child"
    /\ ~is_and_
    /\ N = 3
    /\ i = 3
    /\ bitmap_input = Flip(result)
    /\ \E r \in 1..Width : result[r] = 1
    /\ \E r \in 1..Width : result[r] = 0

\* C16: MoveCursor on a node without offset input advances every child by
\* exactly one batch, whatever order is installed, incomplete ones included.
C16_MoveCursorReachesEveryChild ==
    [][(CallMoveCursor /\ ~has_offset_input_) =>
          \A c \in Indices(N) : cursor'[c] = cursor[c] + 1]_vars

\* C16 witness: a node of three children with an incomplete order installed
\* whose children have all been advanced by one batch.
C16_Witness ==
    /\ node = "built"
    /\ ~has_offset_input_
    /\ N = 3
    /\ input_order_ # <<>>
    /\ Len(input_order_) < N
    /\ calls = 1
    /\ \A c \in Indices(N) : cursor[c] = 1

\* C17: under offset input the node never advances a child: MoveCursor on
\* the node leaves every child's position unchanged, and Eval neither
\* evaluates nor cursor-advances the children that short-circuit skips.
C17_OffsetInputNeverAdvances ==
    /\ [](has_offset_input_ =>
            /\ \A c \in Indices(N) : cursor[c] = 0 /\ moves[c] = 0
            /\ (pc = "done" /\ skip) =>
                  \A k \in 1..N :
                      (\E j \in 1..(k - 1) : PrefixLive(j) = 0) =>
                          /\ evals[EffectiveOrder[k]] = 0
                          /\ moves[EffectiveOrder[k]] = 0)
    /\ [][(has_offset_input_ /\ CallMoveCursor) => cursor' = cursor]_vars

\* C17 witness: under offset input, on the second batch of the scan, an Eval
\* over three children returned on short-circuit with a child neither
\* evaluated nor advanced.
C17_Witness ==
    /\ has_offset_input_
    /\ pc = "done"
    /\ calls = 1
    /\ N = 3
    /\ skip
    /\ \E c \in Indices(N) : evals[c] = 0 /\ moves[c] = 0 /\ cursor[c] = 0

\* C18: inside one Eval, from the first child on, a row of the accumulator
\* only goes from 1 to 0 in AND mode and from 0 to 1 in OR mode; the live-row
\* count of a merge is never above that of the merge before; and after a
\* count of zero the accumulator stays as it is until Eval returns.
C18_AccumulatorMonotone ==
    [][(pc \in {"loop", "child", "merge"} /\ pc' \in {"loop", "child", "merge", "done"}) =>
          /\ \A r \in 1..Width :
                IF is_and_ THEN result'[r] <= result[r]
                           ELSE result'[r] >= result[r]
          /\ active_rows >= 0 => active_rows' <= active_rows
          /\ pc = "merge" =>
                active_rows' <= Cardinality({r \in 1..Width :
                                    result[r] = (IF is_and_ THEN 1 ELSE 0)})
          /\ active_rows = 0 => result' = result]_vars

\* C18 witness: an Eval over three children in AND mode whose second merge
\* cleared a row the first merge had left set, returning with zero live rows.
C18_Witness ==
    /\ pc = "done"
    /\ is_and_
    /\ N = 3
    /\ \A c \in Indices(N) : evals[c] = 1
    /\ active_rows = 0
    /\ \E r \in 1..Width :
          /\ PrefixVerdict(2, r) = 1
          /\ result[r] = 0

\* C19: when the input of a merge and the accumulator differ in length, the
\* merge ends in an assertion failure, the accumulator is left as it was and
\* no live-row count is returned.
C19_LengthMismatchAsserts ==
    (merge_in # <<>> /\ Len(merge_in[1].input) # Len(merge_in[1].result)) =>
        /\ error = "AssertionError"
        /\ result = merge_in[1].result
        /\ active_rows = -1

\* C20: ToString called with the identity permutation installed returns
\* exactly the string it returns with no order installed, in both modes.
C20_IdentityOrderSameString ==
    (tostring_ret # <<>> /\ tostring_ret[1].order = Declared(N)) =>
        tostring_ret[1].str = ToStringOf(<<>>)

====
